---- MODULE Spec2Model ----
(***************************************************************************)
(* http2-viz: a chain of four listeners in one process,                    *)
(*   ui (:8003) -> client (:8002) -> proxy (:8001) -> server (:8000),      *)
(* modelled from src/main.go lines 156-550 (the configurable variant).     *)
(*                                                                         *)
(* Byte strings are modelled as sequences of tokens: a query string is a   *)
(* sequence over keys, values, "=" and "&"; a body is a sequence over the  *)
(* JSON punctuation, JSON strings and the response boundary.               *)
(***************************************************************************)
EXTENDS Integers, Sequences, FiniteSets, TLC

\* ------------------------------------------------------------------ bounds
MaxParams == 2      \* parameters in an inbound query string
MaxSegments == 3    \* boundary-separated segments of an upstream body (SpecDecode)

\* ------------------------------------------------------- program constants
serverPort == ":8000"
proxyPort == ":8001"
clientPort == ":8002"
uiPort == ":8003"
responseBoundary == "~~boundary~~"
Http1 == "http1"
Http2 == "http2"
StatusOK == 200
StatusBadGateway == 502

Listeners == {"client", "proxy", "server", "ui"}
Reqs == {"r1", "r2"}

\* ----------------------------------------------------------- input domains
Keys == {"client-http2", "proxy-http2"}
Vals == {"true", "false", "True"}
Param == [k : Keys, v : Vals]

RECURSIVE SeqsUpTo(_, _)
SeqsUpTo(S, n) ==
    IF n = 0 THEN {<<>>}
    ELSE LET shorter == SeqsUpTo(S, n - 1)
         IN  shorter \cup {Append(s, x) : s \in shorter, x \in S}

ParamLists == SeqsUpTo(Param, MaxParams)

\* The query string a caller writes for a list of parameters: k=v&k=v...
RECURSIVE EncodeQuery(_)
EncodeQuery(ps) ==
    IF ps = <<>> THEN <<>>
    ELSE LET head == <<ps[1].k, "=", ps[1].v>>
         IN  IF Len(ps) = 1 THEN head
             ELSE head \o <<"&">> \o EncodeQuery(Tail(ps))

\* --------------------------------------------------------- token utilities
IndexOf(s, t) ==
    IF \E i \in 1..Len(s) : s[i] = t
    THEN CHOOSE i \in 1..Len(s) : s[i] = t /\ \A j \in 1..(i - 1) : s[j] # t
    ELSE 0

\* bytes.Split / strings.Split: n separators give n+1 segments, empty ones kept.
RECURSIVE Split(_, _)
Split(s, sep) ==
    LET i == IndexOf(s, sep)
    IN  IF i = 0 THEN <<s>>
        ELSE <<SubSeq(s, 1, i - 1)>> \o Split(SubSeq(s, i + 1, Len(s)), sep)

\* strings.Cut
CutBefore(s, sep) == LET i == IndexOf(s, sep) IN IF i = 0 THEN s ELSE SubSeq(s, 1, i - 1)
CutAfter(s, sep) == LET i == IndexOf(s, sep) IN IF i = 0 THEN <<>> ELSE SubSeq(s, i + 1, Len(s))

\* ------------------------------------------------------------------- URLs
\* url.URL{Scheme, Host, RawQuery}.String()
URLString(u) ==
    <<u.Scheme, "://">> \o u.Host \o (IF u.RawQuery = <<>> THEN <<>> ELSE <<"?">> \o u.RawQuery)

\* url.Parse as http.Client.Get applies it to the string it is given
URLParse(s) ==
    [Scheme |-> s[1], Host |-> CutBefore(SubSeq(s, 3, Len(s)), "?"),
     RawQuery |-> CutAfter(s, "?")]

\* The request target written on the wire (URL.RequestURI) and read back by the
\* receiving server (url.ParseRequestURI): path "/" and the raw query.
RequestURI(u) == <<"/">> \o (IF u.RawQuery = <<>> THEN <<>> ELSE <<"?">> \o u.RawQuery)
ParseRequestURI(t) == CutAfter(t, "?")

\* url.URL.Query()[key]: the values of key in order of appearance; ok iff any.
PieceKey(p) == CutBefore(p, "=")
PieceVal(p) == CutAfter(p, "=")
QueryValues(rawQuery, key) ==
    LET pieces == SelectSeq(Split(rawQuery, "&"), LAMBDA p : p # <<>>)
        mine == SelectSeq(pieces, LAMBDA p : PieceKey(p) = <<key>>)
    IN  [i \in 1..Len(mine) |-> PieceVal(mine[i])]

\* ------------------------------------------------------------------- JSON
\* encoding/json on ProxyResponse / ServerResponse: one string field "protocol".
\* A JSON string is one token (its content); punctuation is one token each.
Punctuation == {"{", "}", ":", ",", "null", responseBoundary}
ProxyResponse(p) == [RequestProtocol |-> p]
ServerResponse(p) == [RequestProtocol |-> p]

\* Mutant: the field is encoded under its Go name, without the json tag.
Marshal_goFieldName(obs) == <<"{", "RequestProtocol", ":", obs.RequestProtocol, "}">>

Marshal(obs) == <<"{", "protocol", ":", obs.RequestProtocol, "}">>

\* json.Unmarshal(data, &v) with v zero-valued: err for input that is not one
\* JSON value; an object without the field, or null, leaves v untouched.
JSONValid(data) ==
    \/ data = <<"null">>
    \/ data = <<"{", "}">>
    \/ /\ Len(data) = 5
       /\ data[1] = "{" /\ data[3] = ":" /\ data[5] = "}"
       /\ data[2] \notin Punctuation /\ data[4] \notin Punctuation
Unmarshal(data) ==
    IF ~JSONValid(data) THEN [err |-> TRUE, v |-> [RequestProtocol |-> ""]]
    ELSE IF Len(data) = 5 /\ data[2] = "protocol"
         THEN [err |-> FALSE, v |-> [RequestProtocol |-> data[4]]]
         ELSE [err |-> FALSE, v |-> [RequestProtocol |-> ""]]

\* The text json.Marshal returns for a token sequence: a JSON string is
\* written between quotes, punctuation as it is.
RECURSIVE Bytes(_)
Bytes(data) ==
    IF data = <<>> THEN ""
    ELSE (IF Head(data) \in Punctuation THEN Head(data)
          ELSE "\"" \o Head(data) \o "\"") \o Bytes(Tail(data))

\* strings.Contains
ContainsString(s, substr) ==
    \E i \in 1..(Len(s) - Len(substr) + 1) : SubSeq(s, i, i + Len(substr) - 1) = substr

\* r.Proto as net/http hands it to a handler: the server answers a request
\* only if its version has the form HTTP/d.d (http.ParseHTTPVersion); an
\* HTTP/2 connection reports HTTP/2.0.
Digits == {"0", "1", "2", "3", "4", "5", "6", "7", "8", "9"}
\* Mutant: whatever stands in the request line is taken as the protocol.
ObservableProto_unchecked(vers) == TRUE

ObservableProto(vers) ==
    /\ Len(vers) = 8
    /\ SubSeq(vers, 1, 5) = "HTTP/"
    /\ SubSeq(vers, 6, 6) \in Digits
    /\ SubSeq(vers, 7, 7) = "."
    /\ SubSeq(vers, 8, 8) \in Digits

\* ---------------------------------------------------- ConfigurationParser
\* Mutant: a parameter that is present enables its flag whatever its value.
Parse_presentEnables(rawQuery) ==
    [ClientUseHttp2 |-> Len(QueryValues(rawQuery, "client-http2")) > 0,
     ProxyUseHttp2 |-> Len(QueryValues(rawQuery, "proxy-http2")) > 0]

ConfigurationParser_Parse(rawQuery) ==
    LET clientHttp2Param == QueryValues(rawQuery, "client-http2")
        proxyHttp2Param == QueryValues(rawQuery, "proxy-http2")
    IN  [ClientUseHttp2 |-> Len(clientHttp2Param) > 0 /\ clientHttp2Param[1] = <<"true">>,
         ProxyUseHttp2 |-> Len(proxyHttp2Param) > 0 /\ proxyHttp2Param[1] = <<"true">>]

\* ------------------------------------------------------- TransportFactory
\* server.crt as the process finds it on disk
CertStates == {"valid", "missing", "malformed"}

\* ioutil.ReadFile fails on a missing file; AppendCertsFromPEM's result is
\* ignored, so a malformed file yields a transport with an empty root pool.
\* Mutant: server.crt is added to the system's root pool instead of a new one.
buildTransport_systemRoots(httpVersion, cert) ==
    IF cert = "missing"
    THEN [err |-> TRUE, Version |-> "", RootCAs |-> {}]
    ELSE [err |-> FALSE, Version |-> httpVersion,
          RootCAs |-> IF cert = "valid" THEN {"system", "server.crt"} ELSE {"system"}]

\* Mutant: the version asked for is ignored, every transport is HTTP/1.1.
buildTransport_alwaysHttp1(httpVersion, cert) ==
    IF cert = "missing"
    THEN [err |-> TRUE, Version |-> "", RootCAs |-> {}]
    ELSE [err |-> FALSE, Version |-> Http1,
          RootCAs |-> IF cert = "valid" THEN {"server.crt"} ELSE {}]

buildTransport(httpVersion, cert) ==
    IF cert = "missing"
    THEN [err |-> TRUE, Version |-> "", RootCAs |-> {}]
    ELSE [err |-> FALSE, Version |-> httpVersion,
          RootCAs |-> IF cert = "valid" THEN {"server.crt"} ELSE {}]
NoTransport == [err |-> TRUE, Version |-> "", RootCAs |-> {}]
BuildHttp2Transport(cert) == buildTransport(Http2, cert)
BuildHttp1Transport(cert) == buildTransport(Http1, cert)

\* The application protocol a transport speaks on a TLS connection to one of
\* the listeners: http.Transport with its own TLSClientConfig stays on
\* HTTP/1.1, http2.Transport speaks HTTP/2.
NegotiatedProto(transport) ==
    IF transport.Version = Http2 THEN "HTTP/2.0" ELSE "HTTP/1.1"

\* Mutant: the response is reported with the protocol of an HTTP/1.1 exchange.
ResponseProto_alwaysHttp11(transport) == "HTTP/1.1"

\* http.Response.Proto as the caller's transport reports it
ResponseProto(transport) ==
    CASE transport.Version = Http2 -> "HTTP/2.0"
      [] transport.Version = Http1 -> "HTTP/1.1"
      [] OTHER -> ""

\* Http2Server.ServeHttp(name, handler, tls): which listeners serve TLS
ListenerTLS(name) == name \in {"proxy", "server"}

\* -------------------------------------------------------------- the state
VARIABLES
    process,     \* "running" | "exited" (log.Fatalf ends the whole process)
    fatalMsg,    \* the errorMessage of the HandleErr call that ended it
    certFile,    \* state of server.crt / server.key on disk
    listener,    \* listener -> "starting" | "serving"
    pc,          \* request -> where its handling stands
    entry,       \* request -> the listener the outside caller addressed
    params,      \* request -> the parameters the outside caller encoded
    uiReq,       \* request -> the request as the ui handler received it
    clientReq,   \* ... as the client handler received it
    proxyReq,    \* ... as the proxy handler received it
    serverReq,   \* ... as the server handler received it
    serverW,     \* request -> the server's ResponseWriter
    proxyW,      \* request -> the proxy's ResponseWriter
    proxyErr,    \* request -> the proxy's upstream call failed
    clientW,     \* request -> the client's ResponseWriter
    clientConn,  \* request -> the transport of the client's call to the proxy
    proxyConn,   \* request -> the transport of the proxy's call to the server
    uiW,         \* request -> what the ui handler rendered
    calls        \* request -> round trips started for it, to the proxy and to the server

vars == <<process, fatalMsg, certFile, listener, pc, entry, params, uiReq,
          clientReq, proxyReq, serverReq, serverW, proxyW, proxyErr, clientW,
          clientConn, proxyConn, uiW, calls>>

reqVars == <<pc, entry, params, uiReq, clientReq, proxyReq, serverReq, serverW,
             proxyW, proxyErr, clientW, clientConn, proxyConn, uiW>>

\* *http.Request as a handler sees it
\* http.Header restricted to the names the proxy touches: each name has the
\* list of its values; Add appends one.
HeaderNames == {"X-Forwarded-Host", "X-Origin-Host", "X-Forwarded-For"}
NoHeader == [h \in HeaderNames |-> <<>>]
Header_Add(header, key, value) == [header EXCEPT ![key] = Append(@, value)]

\* http.Request as a handler receives it. Request is the GET without body
\* and without these headers that http.Client.Get sends.
NoRequest ==
    [Present |-> FALSE, Method |-> "", Host |-> <<>>, RawQuery |-> <<>>, Proto |-> "",
     Header |-> NoHeader, Body |-> <<>>]
Request(host, rawQuery, proto) ==
    [Present |-> TRUE, Method |-> "GET", Host |-> host, RawQuery |-> rawQuery,
     Proto |-> proto, Header |-> NoHeader, Body |-> <<>>]

\* Round trips started for a request by Client.makeRequest (toProxy) and by
\* the ReverseProxy of Proxy.handle (toServer)
NoCalls == [toProxy |-> 0, toServer |-> 0]

\* http.ResponseWriter of the proxy and server handlers: the first Write
\* commits status 200; a later WriteHeader is superfluous and ignored.
NewWriter == [wroteHeader |-> FALSE, status |-> 0, body |-> <<>>]
Write(w, data) ==
    [wroteHeader |-> TRUE,
     status |-> IF w.wroteHeader THEN w.status ELSE StatusOK,
     body |-> w.body \o data]
\* Mutant: a WriteHeader after the first Write still replaces the status.
WriteHeader_overrides(w, code) ==
    [wroteHeader |-> TRUE, status |-> code, body |-> w.body]

WriteHeader(w, code) ==
    IF w.wroteHeader THEN w
    ELSE [wroteHeader |-> TRUE, status |-> code, body |-> w.body]

\* ClientResponse and the client's answer to its caller
ClientResponse(pr, code, proto, sr) ==
    [ProxyResponse |-> pr, ResponseCode |-> code, ResponseProtocol |-> proto,
     ServerResponse |-> sr]
NoClientResponse == ClientResponse(ProxyResponse(""), "", "", ServerResponse(""))
\* kind: "none" nothing written yet; "response" status 200 with the JSON of
\* resp as body; "aborted" the handler panicked and net/http dropped the
\* connection without a response.
NoAnswer == [kind |-> "none", resp |-> NoClientResponse]

NoView == [rendered |-> FALSE, ClientUseHTTP2 |-> FALSE, ProxyUseHTTP2 |-> FALSE]

Host(port) == <<"localhost", port>>

IdleInit ==
    /\ pc = [r \in Reqs |-> "idle"]
    /\ entry = [r \in Reqs |-> "none"]
    /\ params = [r \in Reqs |-> <<>>]
    /\ uiReq = [r \in Reqs |-> NoRequest]
    /\ clientReq = [r \in Reqs |-> NoRequest]
    /\ proxyReq = [r \in Reqs |-> NoRequest]
    /\ serverReq = [r \in Reqs |-> NoRequest]
    /\ serverW = [r \in Reqs |-> NewWriter]
    /\ proxyW = [r \in Reqs |-> NewWriter]
    /\ proxyErr = [r \in Reqs |-> FALSE]
    /\ clientW = [r \in Reqs |-> NoAnswer]
    /\ clientConn = [r \in Reqs |-> NoTransport]
    /\ proxyConn = [r \in Reqs |-> NoTransport]
    /\ uiW = [r \in Reqs |-> NoView]
    /\ calls = [r \in Reqs |-> NoCalls]

\* main: the process is up, no listener is bound yet, no request exists.
Init ==
    /\ process = "running"
    /\ fatalMsg = ""
    /\ certFile \in CertStates
    /\ listener = [l \in Listeners |-> "starting"]
    /\ IdleInit

\* Mutant: the error is logged and the process goes on.
Fatalf_logOnly(errorMessage) ==
    /\ process' = process
    /\ fatalMsg' = errorMessage

\* log.Fatalf: the message is logged and os.Exit ends the process at once;
\* no deferred call (waitGroup.Done) runs.
Fatalf(errorMessage) ==
    /\ process' = "exited"
    /\ fatalMsg' = errorMessage

\* ErrorHandler.HandleErr with a non-nil err, in a request handler
HandleErr(errorMessage) ==
    /\ Fatalf(errorMessage)
    /\ UNCHANGED <<certFile, listener, calls>>
    /\ UNCHANGED reqVars

\* ServeHttp of listener l has returned (always with an error) and Start
\* passes the error to HandleErr.
ServeReturned(l) ==
    /\ listener' = [listener EXCEPT ![l] = "exited"]
    /\ Fatalf("http2server crashed")
    /\ UNCHANGED <<certFile, calls>>
    /\ UNCHANGED reqVars

\* Ui/Client/Proxy/Server.Start, run as one goroutine per listener by main:
\* ServeHttp binds and serves; if it returns, it returns an error and
\* HandleErr ends the process.
Start(l) ==
    /\ process = "running"
    /\ listener[l] = "starting"
    /\ \E bindOK \in BOOLEAN :
        IF bindOK /\ (ListenerTLS(l) => certFile = "valid")
        THEN /\ listener' = [listener EXCEPT ![l] = "serving"]
             /\ UNCHANGED <<process, fatalMsg, certFile, calls>>
             /\ UNCHANGED reqVars
        ELSE ServeReturned(l)

\* A listener that serves stops serving (its Accept fails for good):
\* ServeHttp returns the error to Start.
ServeFails(l) ==
    /\ process = "running"
    /\ listener[l] = "serving"
    /\ ServeReturned(l)

\* ------------------------------------------------------- outbound calls
ListenerAt(host) ==
    CASE host = Host(uiPort) -> "ui"
      [] host = Host(clientPort) -> "client"
      [] host = Host(proxyPort) -> "proxy"
      [] host = Host(serverPort) -> "server"
      [] OTHER -> "nowhere"

\* A round trip to u reaches a handler iff the network lets it, the
\* addressed listener serves, speaks the URL's scheme, and (over TLS) its
\* certificate chains to one of the caller's roots.
Reaches(u, rootCAs, netOK) ==
    /\ netOK
    /\ ListenerAt(u.Host) \in Listeners
    /\ listener[ListenerAt(u.Host)] = "serving"
    /\ (u.Scheme = "https") <=> ListenerTLS(ListenerAt(u.Host))
    /\ u.Scheme = "https" => "server.crt" \in rootCAs

\* Mutant: a round trip that fails is tried a second time.
RoundTrip_retryOnFailure(u, transport, netOK) ==
    [attempts |-> IF Reaches(u, transport.RootCAs, netOK) THEN 1 ELSE 2,
     reached |-> Reaches(u, transport.RootCAs, netOK)]

\* One client.Get, or one ReverseProxy.ServeHTTP, over a transport made for
\* this call: the request is sent once; an error is returned to the caller.
RoundTrip(u, transport, netOK) ==
    [attempts |-> 1, reached |-> Reaches(u, transport.RootCAs, netOK)]

\* The request as the addressed handler receives it
Received(inboundHost, u, proto) ==
    Request(inboundHost, ParseRequestURI(RequestURI(u)), proto)

\* ----------------------------------------------------------------- Ui
\* Mutant: the ui calls the client without the query it received.
Ui_clientUrl_noQuery(r) ==
    [Scheme |-> "http", Host |-> Host(clientPort), RawQuery |-> <<>>]

Ui_clientUrl(r) ==
    [Scheme |-> "http", Host |-> Host(clientPort), RawQuery |-> r.RawQuery]

\* An outside caller addresses the ui or the client listener; it issues its
\* requests one after the other.
Arrive(r) ==
    /\ process = "running"
    /\ \A q \in Reqs : pc[q] = "idle"
    /\ \E e \in {"ui", "client"}, ps \in ParamLists :
        LET u == [Scheme |-> "http",
                  Host |-> IF e = "ui" THEN Host(uiPort) ELSE Host(clientPort),
                  RawQuery |-> EncodeQuery(ps)]
            req == Received(u.Host, URLParse(URLString(u)), "HTTP/1.1")
        IN  /\ listener[e] = "serving"
            /\ pc' = [pc EXCEPT ![r] = e]
            /\ entry' = [entry EXCEPT ![r] = e]
            /\ params' = [params EXCEPT ![r] = ps]
            /\ uiReq' = [uiReq EXCEPT ![r] = IF e = "ui" THEN req ELSE NoRequest]
            /\ clientReq' = [clientReq EXCEPT ![r] = IF e = "client" THEN req ELSE NoRequest]
    /\ UNCHANGED <<process, fatalMsg, certFile, listener, proxyReq, serverReq,
                   serverW, proxyW, proxyErr, clientW, clientConn, proxyConn, uiW, calls>>

\* Ui.handle up to the GET of Ui.makeRequest
Ui_makeRequest(r) ==
    /\ process = "running"
    /\ pc[r] = "ui"
    /\ \E netOK \in BOOLEAN :
        LET u == URLParse(URLString(Ui_clientUrl(uiReq[r])))
        IN  IF Reaches(u, {}, netOK)
            THEN /\ clientReq' = [clientReq EXCEPT ![r] = Received(u.Host, u, "HTTP/1.1")]
                 /\ pc' = [pc EXCEPT ![r] = "client"]
                 /\ UNCHANGED <<process, fatalMsg, certFile, listener, entry, params,
                                uiReq, proxyReq, serverReq, serverW, proxyW, proxyErr,
                                clientW, clientConn, proxyConn, uiW, calls>>
            ELSE HandleErr("failed GET to client")

\* Ui.handle from the client's answer on
Ui_handleResponse(r) ==
    /\ process = "running"
    /\ pc[r] = "ui_response"
    /\ IF clientW[r].kind # "response"
       THEN HandleErr("failed GET to client")
       ELSE LET configuration == ConfigurationParser_Parse(uiReq[r].RawQuery)
            IN  /\ uiW' = [uiW EXCEPT ![r] =
                              [rendered |-> TRUE,
                               ClientUseHTTP2 |-> configuration.ClientUseHttp2,
                               ProxyUseHTTP2 |-> configuration.ProxyUseHttp2]]
                /\ pc' = [pc EXCEPT ![r] = "done"]
                /\ UNCHANGED <<process, fatalMsg, certFile, listener, entry, params,
                               uiReq, clientReq, proxyReq, serverReq, serverW, proxyW,
                               proxyErr, clientW, clientConn, proxyConn, calls>>

\* -------------------------------------------------------------- Client
Client_proxyUrl(r) ==
    [Scheme |-> "https", Host |-> Host(proxyPort), RawQuery |-> r.RawQuery]

\* Mutant: one transport is shared by the client's handlers: while a call
\* over an HTTP/2 transport is open, every other call uses it too.
Client_useHttp2_shared(r) ==
    \/ ConfigurationParser_Parse(r.RawQuery).ClientUseHttp2
    \/ \E q \in Reqs :
          /\ pc[q] \in {"proxy", "server", "proxy_response", "client_response"}
          /\ clientConn[q].Version = Http2

\* Mutant: the client chooses its transport by the proxy's flag.
Client_useHttp2_proxyFlag(r) == ConfigurationParser_Parse(r.RawQuery).ProxyUseHttp2

Client_useHttp2(r) == ConfigurationParser_Parse(r.RawQuery).ClientUseHttp2

\* Client.handle up to the GET of Client.makeRequest
Client_makeRequest(r) ==
    /\ process = "running"
    /\ pc[r] = "client"
    /\ \E netOK \in BOOLEAN :
        LET u == URLParse(URLString(Client_proxyUrl(clientReq[r])))
            useHttp2 == Client_useHttp2(clientReq[r])
            transport == IF useHttp2 THEN BuildHttp2Transport(certFile)
                         ELSE BuildHttp1Transport(certFile)
        IN  IF transport.err
            THEN HandleErr(IF useHttp2 THEN "failed building HTTP2 transport"
                           ELSE "failed building HTTP1 transport")
            ELSE LET trip == RoundTrip(u, transport, netOK)
                 IN  /\ calls' = [calls EXCEPT ![r].toProxy = @ + trip.attempts]
                     /\ IF trip.reached
                        THEN /\ proxyReq' = [proxyReq EXCEPT ![r] =
                                   Received(u.Host, u, NegotiatedProto(transport))]
                             /\ clientConn' = [clientConn EXCEPT ![r] = transport]
                             /\ pc' = [pc EXCEPT ![r] = "proxy"]
                             /\ UNCHANGED <<process, fatalMsg, certFile, listener, entry,
                                            params, uiReq, clientReq, serverReq, serverW,
                                            proxyW, proxyErr, clientW, proxyConn, uiW>>
                        ELSE /\ Fatalf("failed GET to proxy")
                             /\ UNCHANGED <<certFile, listener>>
                             /\ UNCHANGED reqVars

\* Mutant: the two segments are decoded into each other's place.
parseResponse_swapped(body) ==
    LET splitResponses == Split(body, responseBoundary)
    IN  IF Len(splitResponses) < 2
        THEN [outcome |-> "panic", msg |-> "index out of range",
              proxy |-> ProxyResponse(""), server |-> ServerResponse("")]
        ELSE LET parsedProxyResponse == Unmarshal(splitResponses[2])
                 parsedServerResponse == Unmarshal(splitResponses[1])
             IN  IF parsedProxyResponse.err \/ parsedServerResponse.err
                 THEN [outcome |-> "fatal", msg |-> "failed unmarshalling proxy response",
                       proxy |-> ProxyResponse(""), server |-> ServerResponse("")]
                 ELSE [outcome |-> "ok", msg |-> "",
                       proxy |-> parsedProxyResponse.v, server |-> parsedServerResponse.v]

\* Client.parseResponse on the body read from the proxy's response
parseResponse(body) ==
    LET splitResponses == Split(body, responseBoundary)
    IN  IF Len(splitResponses) < 2
        THEN [outcome |-> "panic", msg |-> "index out of range",
              proxy |-> ProxyResponse(""), server |-> ServerResponse("")]
        ELSE LET parsedProxyResponse == Unmarshal(splitResponses[1])
                 parsedServerResponse == Unmarshal(splitResponses[2])
             IN  IF parsedProxyResponse.err
                 THEN [outcome |-> "fatal", msg |-> "failed unmarshalling proxy response",
                       proxy |-> ProxyResponse(""), server |-> ServerResponse("")]
                 ELSE IF parsedServerResponse.err
                 THEN [outcome |-> "fatal", msg |-> "failed unmarshalling server response",
                       proxy |-> parsedProxyResponse.v, server |-> ServerResponse("")]
                 ELSE [outcome |-> "ok", msg |-> "",
                       proxy |-> parsedProxyResponse.v, server |-> parsedServerResponse.v]

\* Where the request goes when the client handler has ended
AfterClient(r) == IF entry[r] = "ui" THEN "ui_response" ELSE "done"

\* Client.handle from the proxy's response on
Client_parseResponse(r) ==
    /\ process = "running"
    /\ pc[r] = "client_response"
    /\ \E readOK \in BOOLEAN :
        LET parsed == parseResponse(proxyW[r].body)
        IN  IF ~readOK THEN HandleErr("failed reading proxy response body")
            ELSE IF parsed.outcome = "fatal" THEN HandleErr(parsed.msg)
            ELSE /\ clientW' = [clientW EXCEPT ![r] =
                       IF parsed.outcome = "panic"
                       THEN [kind |-> "aborted", resp |-> NoClientResponse]
                       ELSE [kind |-> "response",
                             resp |-> ClientResponse(parsed.proxy,
                                                     ToString(proxyW[r].status),
                                                     ResponseProto(clientConn[r]),
                                                     parsed.server)]]
                 /\ pc' = [pc EXCEPT ![r] = AfterClient(r)]
                 /\ UNCHANGED <<process, fatalMsg, certFile, listener, entry, params,
                                uiReq, clientReq, proxyReq, serverReq, serverW, proxyW,
                                proxyErr, clientConn, proxyConn, uiW, calls>>

\* --------------------------------------------------------------- Proxy
\* Mutant: X-Forwarded-Host gets the origin's host instead of the inbound one.
Proxy_director_originAsForwarded(r) ==
    [Method |-> r.Method,
     URL |-> [Scheme |-> "https", Host |-> Host(serverPort), RawQuery |-> r.RawQuery],
     Host |-> r.Host,
     Header |-> Header_Add(Header_Add(r.Header, "X-Forwarded-Host", Host(serverPort)),
                           "X-Origin-Host", Host(serverPort)),
     Body |-> r.Body]

\* The director of the proxy's ReverseProxy, applied to the outgoing copy of
\* the inbound request r: two headers are added, the URL's scheme and host
\* are set; method, req.Host, query and body stay as received.
Proxy_director(r) ==
    [Method |-> r.Method,
     URL |-> [Scheme |-> "https", Host |-> Host(serverPort), RawQuery |-> r.RawQuery],
     Host |-> r.Host,
     Header |-> Header_Add(Header_Add(r.Header, "X-Forwarded-Host", r.Host),
                           "X-Origin-Host", Host(serverPort)),
     Body |-> r.Body]

\* The request the server's handler receives when ReverseProxy.ServeHTTP has
\* sent out: ServeHTTP itself appends the caller's address to X-Forwarded-For.
Forwarded(out, proto) ==
    [Present |-> TRUE, Method |-> out.Method, Host |-> out.Host,
     RawQuery |-> ParseRequestURI(RequestURI(out.URL)), Proto |-> proto,
     Header |-> Header_Add(out.Header, "X-Forwarded-For", <<"127.0.0.1">>),
     Body |-> out.Body]

Proxy_useHttp2(r) == ConfigurationParser_Parse(r.RawQuery).ProxyUseHttp2

\* What Proxy.handle writes before it forwards: its own observation, then
\* the boundary.
\* Mutant: the boundary is written before the proxy's own observation.
Proxy_selfTag_boundaryFirst(r) ==
    Write(Write(NewWriter, <<responseBoundary>>), Marshal(ProxyResponse(r.Proto)))

Proxy_selfTag(r) ==
    Write(Write(NewWriter, Marshal(ProxyResponse(r.Proto))), <<responseBoundary>>)

\* Proxy.handle up to the round trip of proxy.ServeHTTP. A failed round trip
\* runs ReverseProxy's default error handler, WriteHeader(502), and the
\* handler returns.
Proxy_handle(r) ==
    /\ process = "running"
    /\ pc[r] = "proxy"
    /\ \E netOK \in BOOLEAN :
        LET w == Proxy_selfTag(proxyReq[r])
            out == Proxy_director(proxyReq[r])
            u == out.URL
            useHttp2 == Proxy_useHttp2(proxyReq[r])
            transport == IF useHttp2 THEN BuildHttp2Transport(certFile)
                         ELSE BuildHttp1Transport(certFile)
        IN  IF transport.err
            THEN HandleErr(IF useHttp2 THEN "failed building HTTP2 transport"
                           ELSE "failed building HTTP1 transport")
            ELSE /\ calls' = [calls EXCEPT ![r].toServer =
                                  @ + RoundTrip(u, transport, netOK).attempts]
                 /\ IF RoundTrip(u, transport, netOK).reached
                    THEN /\ serverReq' = [serverReq EXCEPT ![r] =
                               Forwarded(out, NegotiatedProto(transport))]
                         /\ proxyConn' = [proxyConn EXCEPT ![r] = transport]
                         /\ proxyW' = [proxyW EXCEPT ![r] = w]
                         /\ pc' = [pc EXCEPT ![r] = "server"]
                         /\ UNCHANGED proxyErr
                    ELSE /\ proxyW' = [proxyW EXCEPT ![r] = WriteHeader(w, StatusBadGateway)]
                         /\ proxyErr' = [proxyErr EXCEPT ![r] = TRUE]
                         /\ pc' = [pc EXCEPT ![r] = "client_response"]
                         /\ UNCHANGED <<serverReq, proxyConn>>
                 /\ UNCHANGED <<process, fatalMsg, certFile, listener, entry, params,
                                uiReq, clientReq, proxyReq, serverW, clientW, clientConn,
                                uiW>>

\* proxy.ServeHTTP from the server's response on: the status is passed to
\* WriteHeader, the body is copied, the handler returns.
Proxy_copyResponse(r) ==
    /\ process = "running"
    /\ pc[r] = "proxy_response"
    /\ proxyW' = [proxyW EXCEPT ![r] =
                    Write(WriteHeader(proxyW[r], serverW[r].status), serverW[r].body)]
    /\ pc' = [pc EXCEPT ![r] = "client_response"]
    /\ UNCHANGED <<process, fatalMsg, certFile, listener, entry, params, uiReq,
                   clientReq, proxyReq, serverReq, serverW, proxyErr, clientW,
                   clientConn, proxyConn, uiW, calls>>

\* -------------------------------------------------------------- Server
\* Mutant: the encoding is printed with Fprintln, a newline follows it.
Server_body_newline(r) == Marshal(ServerResponse(r.Proto)) \o <<"\n">>

\* What Server.handle prints: the encoding of its observation of r
Server_body(r) == Marshal(ServerResponse(r.Proto))

Server_handle(r) ==
    /\ process = "running"
    /\ pc[r] = "server"
    /\ serverW' = [serverW EXCEPT ![r] =
                     Write(NewWriter, Server_body(serverReq[r]))]
    /\ pc' = [pc EXCEPT ![r] = "proxy_response"]
    /\ UNCHANGED <<process, fatalMsg, certFile, listener, entry, params, uiReq,
                   clientReq, proxyReq, serverReq, proxyW, proxyErr, clientW,
                   clientConn, proxyConn, uiW, calls>>

\* The outside caller has its answer (or its broken connection); everything
\* made for the request is discarded.
Complete(r) ==
    /\ process = "running"
    /\ pc[r] = "done"
    /\ pc' = [pc EXCEPT ![r] = "idle"]
    /\ entry' = [entry EXCEPT ![r] = "none"]
    /\ params' = [params EXCEPT ![r] = <<>>]
    /\ uiReq' = [uiReq EXCEPT ![r] = NoRequest]
    /\ clientReq' = [clientReq EXCEPT ![r] = NoRequest]
    /\ proxyReq' = [proxyReq EXCEPT ![r] = NoRequest]
    /\ serverReq' = [serverReq EXCEPT ![r] = NoRequest]
    /\ serverW' = [serverW EXCEPT ![r] = NewWriter]
    /\ proxyW' = [proxyW EXCEPT ![r] = NewWriter]
    /\ proxyErr' = [proxyErr EXCEPT ![r] = FALSE]
    /\ clientW' = [clientW EXCEPT ![r] = NoAnswer]
    /\ clientConn' = [clientConn EXCEPT ![r] = NoTransport]
    /\ proxyConn' = [proxyConn EXCEPT ![r] = NoTransport]
    /\ uiW' = [uiW EXCEPT ![r] = NoView]
    /\ calls' = [calls EXCEPT ![r] = NoCalls]
    /\ UNCHANGED <<process, fatalMsg, certFile, listener>>

\* ------------------------------------------------------- specifications
Next ==
    \/ \E l \in Listeners : Start(l)
    \/ \E l \in Listeners : ServeFails(l)
    \/ \E r \in Reqs : Arrive(r)
    \/ \E r \in Reqs : Ui_makeRequest(r)
    \/ \E r \in Reqs : Client_makeRequest(r)
    \/ \E r \in Reqs : Proxy_handle(r)
    \/ \E r \in Reqs : Server_handle(r)
    \/ \E r \in Reqs : Proxy_copyResponse(r)
    \/ \E r \in Reqs : Client_parseResponse(r)
    \/ \E r \in Reqs : Ui_handleResponse(r)
    \/ \E r \in Reqs : Complete(r)

Spec == Init /\ [][Next]_vars

\* ------------------------------------------------- concurrent requests
\* All listeners serve and server.crt is in place; outside callers send
\* requests without waiting for each other, each with its own choice of the
\* two flags.
FlagLists ==
    {<<>>,
     <<[k |-> "client-http2", v |-> "true"]>>,
     <<[k |-> "proxy-http2", v |-> "true"]>>,
     <<[k |-> "client-http2", v |-> "true"], [k |-> "proxy-http2", v |-> "true"]>>}

InitConcurrent ==
    /\ process = "running"
    /\ fatalMsg = ""
    /\ certFile = "valid"
    /\ listener = [l \in Listeners |-> "serving"]
    /\ IdleInit

ArriveConcurrent(r) ==
    /\ process = "running"
    /\ pc[r] = "idle"
    /\ \E e \in {"ui", "client"}, ps \in FlagLists :
        LET u == [Scheme |-> "http",
                  Host |-> IF e = "ui" THEN Host(uiPort) ELSE Host(clientPort),
                  RawQuery |-> EncodeQuery(ps)]
            req == Received(u.Host, URLParse(URLString(u)), "HTTP/1.1")
        IN  /\ listener[e] = "serving"
            /\ pc' = [pc EXCEPT ![r] = e]
            /\ entry' = [entry EXCEPT ![r] = e]
            /\ params' = [params EXCEPT ![r] = ps]
            /\ uiReq' = [uiReq EXCEPT ![r] = IF e = "ui" THEN req ELSE NoRequest]
            /\ clientReq' = [clientReq EXCEPT ![r] = IF e = "client" THEN req ELSE NoRequest]
    /\ UNCHANGED <<process, fatalMsg, certFile, listener, proxyReq, serverReq,
                   serverW, proxyW, proxyErr, clientW, clientConn, proxyConn, uiW, calls>>

NextConcurrent ==
    \/ \E r \in Reqs : ArriveConcurrent(r)
    \/ \E r \in Reqs : Ui_makeRequest(r)
    \/ \E r \in Reqs : Client_makeRequest(r)
    \/ \E r \in Reqs : Proxy_handle(r)
    \/ \E r \in Reqs : Server_handle(r)
    \/ \E r \in Reqs : Proxy_copyResponse(r)
    \/ \E r \in Reqs : Client_parseResponse(r)
    \/ \E r \in Reqs : Ui_handleResponse(r)
    \/ \E r \in Reqs : Complete(r)

SpecConcurrent == InitConcurrent /\ [][NextConcurrent]_vars

\* ------------------------------------------------- calls to the proxy
\* The proxy's listener answers whoever calls it over TLS: Proxy.handle and
\* the server applied to every inbound request an outside caller can send,
\* with either method, with or without a body, a query, and an
\* X-Forwarded-Host header from an earlier proxy. The caller reads the
\* proxy's response itself.
ForwardMethods == {"GET", "POST"}
ForwardBodies == {<<>>, <<"payload">>}
ForwardHosts == {Host(proxyPort), <<"127.0.0.1", proxyPort>>}
RequestLineVersions ==
    {"HTTP/1.1", "HTTP/1.0", "HTTP/2.0", "HTTP/1.x", "HTTP/~~boundary~~", "~~boundary~~"}
ForwardProtos == {vers \in RequestLineVersions : ObservableProto(vers)}
ForwardHeaders ==
    {NoHeader, Header_Add(NoHeader, "X-Forwarded-Host", <<"edge.example">>)}

InitForward ==
    /\ process = "running"
    /\ fatalMsg = ""
    /\ certFile = "valid"
    /\ listener = [l \in Listeners |-> "serving"]
    /\ \E method \in ForwardMethods, body \in ForwardBodies, host \in ForwardHosts,
          header \in ForwardHeaders, ps \in ParamLists, proto \in ForwardProtos :
        LET inbound == [Present |-> TRUE, Method |-> method, Host |-> host,
                        RawQuery |-> EncodeQuery(ps), Proto |-> proto,
                        Header |-> header, Body |-> body]
            busy(x, idle) == [r \in Reqs |-> IF r = "r1" THEN x ELSE idle]
        IN  /\ pc = busy("proxy", "idle")
            /\ entry = busy("proxy", "none")
            /\ params = busy(ps, <<>>)
            /\ proxyReq = busy(inbound, NoRequest)
    /\ uiReq = [r \in Reqs |-> NoRequest]
    /\ clientReq = [r \in Reqs |-> NoRequest]
    /\ serverReq = [r \in Reqs |-> NoRequest]
    /\ serverW = [r \in Reqs |-> NewWriter]
    /\ proxyW = [r \in Reqs |-> NewWriter]
    /\ proxyErr = [r \in Reqs |-> FALSE]
    /\ clientW = [r \in Reqs |-> NoAnswer]
    /\ clientConn = [r \in Reqs |-> NoTransport]
    /\ proxyConn = [r \in Reqs |-> NoTransport]
    /\ uiW = [r \in Reqs |-> NoView]
    /\ calls = [r \in Reqs |-> NoCalls]

NextForward ==
    \/ \E r \in Reqs : Proxy_handle(r)
    \/ \E r \in Reqs : Server_handle(r)
    \/ \E r \in Reqs : Proxy_copyResponse(r)

SpecForward == InitForward /\ [][NextForward]_vars

\* ------------------------------------------- decoding arbitrary upstreams
\* Client.parseResponse applied to every body a (possibly malformed)
\* upstream on the proxy's port can answer with: up to MaxSegments segments
\* joined by the boundary.
Protos == {"HTTP/1.1", "HTTP/2.0"}
Segments ==
    {Marshal(ProxyResponse(p)) : p \in Protos}
        \cup {<<>>, <<"{", "}">>, <<"{">>, <<"null">>}

RECURSIVE Join(_)
Join(segs) ==
    IF Len(segs) = 1 THEN segs[1]
    ELSE segs[1] \o <<responseBoundary>> \o Join(Tail(segs))

Bodies == {Join(segs) : segs \in SeqsUpTo(Segments, MaxSegments) \ {<<>>}}

InitDecode ==
    /\ process = "running"
    /\ fatalMsg = ""
    /\ certFile = "valid"
    /\ listener = [l \in Listeners |-> "serving"]
    /\ \E e \in {"ui", "client"}, version \in {Http1, Http2}, body \in Bodies :
        LET outside == [Scheme |-> "http",
                        Host |-> IF e = "ui" THEN Host(uiPort) ELSE Host(clientPort),
                        RawQuery |-> <<>>]
            inbound == Received(outside.Host, outside, "HTTP/1.1")
            viaUi == Received(Host(clientPort), Ui_clientUrl(inbound), "HTTP/1.1")
            atClient == IF e = "ui" THEN viaUi ELSE inbound
            transport == buildTransport(version, "valid")
            busy(x, idle) == [r \in Reqs |-> IF r = "r1" THEN x ELSE idle]
        IN  /\ pc = busy("client_response", "idle")
            /\ entry = busy(e, "none")
            /\ params = busy(<<>>, <<>>)
            /\ uiReq = busy(IF e = "ui" THEN inbound ELSE NoRequest, NoRequest)
            /\ clientReq = busy(atClient, NoRequest)
            /\ proxyReq = busy(Received(Host(proxyPort), Client_proxyUrl(atClient),
                                        NegotiatedProto(transport)), NoRequest)
            /\ serverReq = busy(NoRequest, NoRequest)
            /\ serverW = busy(NewWriter, NewWriter)
            /\ proxyW = busy(Write(NewWriter, body), NewWriter)
            /\ proxyErr = busy(FALSE, FALSE)
            /\ clientW = busy(NoAnswer, NoAnswer)
            /\ clientConn = busy(transport, NoTransport)
            /\ proxyConn = busy(NoTransport, NoTransport)
            /\ uiW = busy(NoView, NoView)
            /\ calls = busy([toProxy |-> 1, toServer |-> 0], NoCalls)

NextDecode ==
    \/ \E r \in Reqs : Client_parseResponse(r)
    \/ \E r \in Reqs : Ui_handleResponse(r)
    \/ \E r \in Reqs : Complete(r)

SpecDecode == InitDecode /\ [][NextDecode]_vars

\* ================================================================ claims
\* What a list of parameters says about a flag, read off the list itself:
\* the first parameter named key has the value "true".
FlagOn(ps, key) ==
    \E i \in 1..Len(ps) :
        /\ ps[i].k = key
        /\ ps[i].v = "true"
        /\ \A j \in 1..(i - 1) : ps[j].k # key
ProtoFor(flag) == IF flag THEN "HTTP/2.0" ELSE "HTTP/1.1"
Answered(r) == clientW[r].kind = "response"
\* The client handler of r has returned (normally or by a panic).
ClientReturned(r) == pc[r] \in {"ui_response", "done"}

\* C1: in every AggregatedResponse the client returns, proxy_response.protocol
\* is the protocol of the client's connection to the proxy and
\* server_response.protocol is the protocol of the proxy's connection to the
\* server; the first is decided by client-http2 alone, the second by
\* proxy-http2 alone.
C1_ObservationsReflectNegotiation ==
    \A r \in Reqs :
        Answered(r) =>
            /\ clientW[r].resp.ProxyResponse.RequestProtocol = proxyReq[r].Proto
            /\ clientW[r].resp.ServerResponse.RequestProtocol = serverReq[r].Proto
            /\ proxyReq[r].Proto = ProtoFor(FlagOn(params[r], "client-http2"))
            /\ serverReq[r].Proto = ProtoFor(FlagOn(params[r], "proxy-http2"))

\* C1 witness: an answered request with client-http2 on and proxy-http2 off.
C1_Witness ==
    \E r \in Reqs :
        /\ Answered(r)
        /\ FlagOn(params[r], "client-http2")
        /\ ~FlagOn(params[r], "proxy-http2")

\* C2: with both flags off both observations are "HTTP/1.1", with both flags
\* "true" both are "HTTP/2.0".
C2_BothOffBothOn ==
    \A r \in Reqs :
        Answered(r) =>
            LET c == FlagOn(params[r], "client-http2")
                p == FlagOn(params[r], "proxy-http2")
                obs == {clientW[r].resp.ProxyResponse.RequestProtocol,
                        clientW[r].resp.ServerResponse.RequestProtocol}
            IN  /\ (~c /\ ~p) => obs = {"HTTP/1.1"}
                /\ (c /\ p) => obs = {"HTTP/2.0"}

\* C2 witness: an answered request with both flags "true".
C2_Witness ==
    \E r \in Reqs :
        /\ Answered(r)
        /\ FlagOn(params[r], "client-http2")
        /\ FlagOn(params[r], "proxy-http2")

C4_ParseEnablesOnTrueOnly ==
    \A r \in Reqs :
        LET want == [ClientUseHttp2 |-> FlagOn(params[r], "client-http2"),
                     ProxyUseHttp2 |-> FlagOn(params[r], "proxy-http2")]
        IN  /\ uiReq[r].Present => ConfigurationParser_Parse(uiReq[r].RawQuery) = want
            /\ clientReq[r].Present => ConfigurationParser_Parse(clientReq[r].RawQuery) = want
            /\ proxyReq[r].Present => ConfigurationParser_Parse(proxyReq[r].RawQuery) = want
            /\ clientConn[r] # NoTransport
                    => (clientConn[r].Version = Http2) = want.ClientUseHttp2
            /\ proxyConn[r] # NoTransport
                    => (proxyConn[r].Version = Http2) = want.ProxyUseHttp2
            /\ uiW[r].rendered
                    => /\ uiW[r].ClientUseHTTP2 = want.ClientUseHttp2
                       /\ uiW[r].ProxyUseHTTP2 = want.ProxyUseHttp2

\* C4 witness: the ui rendered a request whose client-http2 is present with
\* a value other than "true" and whose proxy-http2 is "true".
C4_Witness ==
    \E r \in Reqs :
        /\ uiW[r].rendered
        /\ \E i \in 1..Len(params[r]) :
              params[r][i].k = "client-http2" /\ params[r][i].v = "True"
        /\ ~uiW[r].ClientUseHTTP2
        /\ uiW[r].ProxyUseHTTP2

\* C5 (as claimed): when the proxy's body holds no boundary, the client
\* handler returns an error response reporting the decode error.
C5_AbsentDelimiterReported ==
    \A r \in Reqs :
        (ClientReturned(r) /\ IndexOf(proxyW[r].body, responseBoundary) = 0)
            => clientW[r].kind = "error"

\* C6 (as claimed): a body holding the boundary more than once is never
\* decoded into an AggregatedResponse.
C6_RepeatedDelimiterRejected ==
    \A r \in Reqs :
        Len(Split(proxyW[r].body, responseBoundary)) > 2 => ~Answered(r)

\* C7 (as claimed): no AggregatedResponse carries an observation defaulted to
\* the empty protocol string, and a segment that fails to parse does not end
\* otherwise than in an error reported to the caller.
C7_InvalidSegmentSurfaced ==
    /\ \A r \in Reqs :
          Answered(r) =>
              /\ clientW[r].resp.ProxyResponse.RequestProtocol # ""
              /\ clientW[r].resp.ServerResponse.RequestProtocol # ""
    /\ fatalMsg \notin {"failed unmarshalling proxy response",
                        "failed unmarshalling server response"}

\* C8 (as claimed): when the proxy's call to the server failed, the client
\* handler returns an upstream-error response to its caller.
C8_OriginUnreachableReported ==
    \A r \in Reqs :
        proxyErr[r] =>
            /\ ClientReturned(r) => clientW[r].kind = "error"
            /\ fatalMsg # "failed unmarshalling server response"

\* C9 (as claimed): when the proxy's call to the server failed, the status of
\* the proxy's response is 5xx.
C9_RelayFailureIs5xx ==
    \A r \in Reqs : proxyErr[r] => proxyW[r].status >= 500

\* C10 (as claimed): the process ends only by a listener's startup failure.
C10_OnlyStartupFailureTerminates ==
    process = "exited" => fatalMsg = "http2server crashed"

\* C11 (as claimed): a failed call to the next hop is never answered as a
\* success: when the proxy's call to the server failed the proxy's status is
\* not 2xx, and when the proxy's status is not 2xx the client returns no
\* AggregatedResponse.
Is2xx(status) == status >= 200 /\ status <= 299
C11_FailureNeverMaskedAsSuccess ==
    \A r \in Reqs :
        /\ proxyErr[r] => ~Is2xx(proxyW[r].status)
        /\ (proxyW[r].wroteHeader /\ ~Is2xx(proxyW[r].status)) => ~Answered(r)

\* The proxy handler of r has returned: its response body is complete.
ProxyReturned(r) == pc[r] \in {"client_response", "ui_response", "done"} /\ proxyReq[r].Present

\* C12: the body of the proxy's response is the JSON of the proxy's own
\* observation, then the boundary once, then the server's body verbatim (no
\* body when the call to the server failed), and nothing else.
C12_RelayBodyLayout ==
    \A r \in Reqs :
        (ProxyReturned(r) /\ clientConn[r] # NoTransport) =>
            proxyW[r].body =
                Marshal(ProxyResponse(proxyReq[r].Proto))
                    \o <<responseBoundary>>
                    \o (IF proxyErr[r] THEN <<>> ELSE serverW[r].body)

\* C12 witness: the proxy has returned a body that ends in the server's body.
C12_Witness ==
    \E r \in Reqs :
        /\ ProxyReturned(r)
        /\ ~proxyErr[r]
        /\ serverReq[r].Present
        /\ serverW[r].body # <<>>
        /\ Len(Split(proxyW[r].body, responseBoundary)) = 2

\* C13: the four listeners run side by side, and a listener that exits takes
\* the process with it: no listener has exited while the process runs, and no
\* second listener exits after the first.
C13_ListenerExitIsFatal ==
    /\ \A l \in Listeners : listener[l] = "exited" => process = "exited"
    /\ Cardinality({l \in Listeners : listener[l] = "exited"}) <= 1
    /\ process = "running" => \A l \in Listeners : listener[l] \in {"starting", "serving"}

\* C13 witness: one listener has exited while the three others were serving.
C13_Witness ==
    \E l \in Listeners :
        /\ listener[l] = "exited"
        /\ \A m \in Listeners \ {l} : listener[m] = "serving"

\* The AggregatedResponse of a request with parameters ps handled with no
\* other request in the process.
AloneResponse(ps) ==
    ClientResponse(ProxyResponse(ProtoFor(FlagOn(ps, "client-http2"))),
                   "200",
                   ProtoFor(FlagOn(ps, "client-http2")),
                   ServerResponse(ProtoFor(FlagOn(ps, "proxy-http2"))))
VersionFor(flag) == IF flag THEN Http2 ELSE Http1

\* C14: under every interleaving of two requests, each outbound call uses a
\* transport built from the request's own flag and each AggregatedResponse is
\* the one the request gets when handled alone.
C14_NoCrossTalk ==
    \A r \in Reqs :
        /\ clientConn[r] # NoTransport
              => clientConn[r] = buildTransport(VersionFor(FlagOn(params[r], "client-http2")),
                                                certFile)
        /\ proxyConn[r] # NoTransport
              => proxyConn[r] = buildTransport(VersionFor(FlagOn(params[r], "proxy-http2")),
                                               certFile)
        /\ Answered(r) => clientW[r].resp = AloneResponse(params[r])

\* C14 witness: two requests with opposite flags are both between the
\* server's answer and the proxy's copy of it.
C14_Witness ==
    \E r, q \in Reqs :
        /\ pc[r] = "proxy_response" /\ pc[q] = "proxy_response"
        /\ FlagOn(params[r], "client-http2") /\ ~FlagOn(params[q], "client-http2")
        /\ ~FlagOn(params[r], "proxy-http2") /\ FlagOn(params[q], "proxy-http2")

\* C15: two requests with identical flags get identical AggregatedResponses,
\* whatever was handled before, between or beside them.
C15_SameFlagsSameResponse ==
    \A r, q \in Reqs :
        (Answered(r) /\ Answered(q) /\ params[r] = params[q])
            => clientW[r].resp = clientW[q].resp

\* C15 witness: two distinct requests with the same non-empty flags have both
\* been answered.
C15_Witness ==
    \E r, q \in Reqs :
        /\ r # q
        /\ Answered(r) /\ Answered(q)
        /\ params[r] = params[q]
        /\ params[r] # <<>>

\* C16: when server.crt is missing or malformed, the transport selection a
\* handler is about to make fails with an error, for either version.
C16_BadTrustRootFailsSelection ==
    \A r \in Reqs :
        (pc[r] = "client" /\ certFile # "valid")
            => (IF Client_useHttp2(clientReq[r])
                THEN BuildHttp2Transport(certFile)
                ELSE BuildHttp1Transport(certFile)).err

\* Protocol strings of the round trip: the two the listeners report, an older
\* version string, and the zero value.
ProtoStrings == {"HTTP/1.1", "HTTP/2.0", "HTTP/1.0", ""}

Hops == {"client", "proxy", "server"}

\* C18 (as stated): each of the three hops that serves does so over TLS with
\* server.crt, and each transport a call was made with trusts server.crt only.
C18_EveryHopServesTLS ==
    /\ \A l \in Hops :
          listener[l] = "serving" => (ListenerTLS(l) /\ certFile = "valid")
    /\ \A r \in Reqs :
          /\ clientConn[r] # NoTransport => clientConn[r].RootCAs = {"server.crt"}
          /\ proxyConn[r] # NoTransport => proxyConn[r].RootCAs = {"server.crt"}

\* C18 (amended): the proxy and the server serve over TLS with server.crt,
\* the client serves plain HTTP and is called over plain HTTP by the ui; the
\* calls to the proxy and to the server go over https, and each transport a
\* call reached them with trusts server.crt only.
C18_RelayAndOriginServeTLS ==
    /\ \A l \in {"proxy", "server"} :
          listener[l] = "serving" => (ListenerTLS(l) /\ certFile = "valid")
    /\ listener["client"] = "serving" => ~ListenerTLS("client")
    /\ \A r \in Reqs :
          /\ (uiReq[r].Present /\ clientReq[r].Present)
                => Ui_clientUrl(uiReq[r]).Scheme = "http"
          /\ proxyReq[r].Present
                => /\ Client_proxyUrl(clientReq[r]).Scheme = "https"
                   /\ clientConn[r].RootCAs = {"server.crt"}
          /\ serverReq[r].Present
                => /\ Proxy_director(proxyReq[r]).URL.Scheme = "https"
                   /\ proxyConn[r].RootCAs = {"server.crt"}

\* C18 witness: a request that came in through the ui has been carried over
\* plain HTTP to the client and over TLS to the proxy and to the server.
C18_Witness ==
    \E r \in Reqs :
        /\ uiReq[r].Present /\ clientReq[r].Present
        /\ proxyReq[r].Present /\ serverReq[r].Present
        /\ clientConn[r].RootCAs = {"server.crt"}
        /\ proxyConn[r].RootCAs = {"server.crt"}

\* C19: a hop has written nothing of its own response while its downstream
\* response is outstanding: the proxy's writer is untouched until the server
\* has answered or the call has failed, and the client's until the proxy's
\* body has been read.
C19_NoWriteBeforeDownstream ==
    \A r \in Reqs :
        /\ pc[r] \in {"proxy", "server"} => proxyW[r] = NewWriter
        /\ pc[r] \in {"client", "proxy", "server", "proxy_response"}
              => clientW[r] = NoAnswer

\* C20: the request the server receives from the proxy has the inbound
\* request's method, body and query; the director sets the URL's scheme to
\* https and its host to the server's, appends the inbound req.Host to
\* X-Forwarded-Host and the server's host to X-Origin-Host, and leaves
\* everything else of the request as it was.
C20_DirectorFrame ==
    \A r \in Reqs :
        serverReq[r].Present =>
            LET in == proxyReq[r]
                out == Proxy_director(in)
                got == serverReq[r]
            IN  /\ got.Method = in.Method
                /\ got.Body = in.Body
                /\ got.RawQuery = in.RawQuery
                /\ out.URL.Scheme = "https"
                /\ out.URL.Host = Host(serverPort)
                /\ got.Header["X-Forwarded-Host"]
                       = Append(in.Header["X-Forwarded-Host"], in.Host)
                /\ got.Header["X-Origin-Host"]
                       = Append(in.Header["X-Origin-Host"], Host(serverPort))
                /\ out.Method = in.Method
                /\ out.Body = in.Body
                /\ out.Host = in.Host
                /\ out.URL.RawQuery = in.RawQuery
                /\ \A h \in HeaderNames \ {"X-Forwarded-Host", "X-Origin-Host"} :
                       out.Header[h] = in.Header[h]

\* C20 witness: a POST with a body, a query and an X-Forwarded-Host of its
\* own has been forwarded to the server.
C20_Witness ==
    \E r \in Reqs :
        /\ serverReq[r].Present
        /\ proxyReq[r].Method = "POST"
        /\ proxyReq[r].Body # <<>>
        /\ proxyReq[r].RawQuery # <<>>
        /\ proxyReq[r].Header["X-Forwarded-Host"] # <<>>
        /\ proxyReq[r].Host # Host(proxyPort)

\* Number of JSON objects opened in a body
Objects(body) == Cardinality({i \in 1..Len(body) : body[i] = "{"})

\* C21: for each request the client starts exactly one round trip to the
\* proxy and the proxy at most one to the server (exactly one once it has
\* forwarded or failed); the proxy and the server each write one observation;
\* a failed call to the server is not tried again and the request gets no
\* AggregatedResponse.
C21_ExactlyOnceNoRetry ==
    \A r \in Reqs :
        /\ calls[r].toProxy <= 1
        /\ calls[r].toServer <= 1
        /\ proxyReq[r].Present => calls[r].toProxy = 1
        /\ (serverReq[r].Present \/ proxyErr[r]) => calls[r].toServer = 1
        /\ proxyErr[r] => (~serverReq[r].Present /\ ~Answered(r))
        /\ serverW[r].body # <<>> => Objects(serverW[r].body) = 1
        /\ proxyW[r].body # <<>> =>
              Objects(proxyW[r].body)
                  = 1 + (IF ProxyReturned(r) /\ ~proxyErr[r]
                         THEN Objects(serverW[r].body) ELSE 0)

\* C21 witness: the proxy's one call to the server has failed and the proxy
\* has returned.
C21_Witness ==
    \E r \in Reqs :
        /\ proxyErr[r]
        /\ pc[r] = "client_response"
        /\ calls[r] = [toProxy |-> 1, toServer |-> 1]

\* C22: for every protocol string the proxy can observe, the text of its
\* encoded observation does not contain the boundary, so the first boundary
\* in the proxy's body is the one the proxy wrote after its tag.
C22_BoundaryNotInTag ==
    \A r \in Reqs :
        proxyReq[r].Present =>
            LET tag == Marshal(ProxyResponse(proxyReq[r].Proto))
            IN  /\ ~ContainsString(Bytes(tag), responseBoundary)
                /\ proxyW[r].body # <<>>
                      => IndexOf(proxyW[r].body, responseBoundary) = Len(tag) + 1

\* C22 witness: the proxy has returned a whole body for an HTTP/1.0 request.
C22_Witness ==
    \E r \in Reqs :
        /\ proxyReq[r].Proto = "HTTP/1.0"
        /\ pc[r] = "client_response"
        /\ ~proxyErr[r]
        /\ Len(Split(proxyW[r].body, responseBoundary)) = 2

\* C23: the body the server has written is exactly the JSON encoding of the
\* observation of its inbound request's protocol, and the step of the
\* server's handler starts no round trip and changes nothing but its own
\* response.
C23_OriginReportsOnly ==
    /\ [](\A r \in Reqs :
            serverW[r].body # <<>>
                => serverW[r].body = <<"{", "protocol", ":", serverReq[r].Proto, "}">>)
    /\ [][\A r \in Reqs :
            (pc[r] = "server" /\ pc'[r] # "server") =>
                /\ pc' = [pc EXCEPT ![r] = "proxy_response"]
                /\ serverW' = [serverW EXCEPT ![r] = serverW'[r]]
                /\ UNCHANGED <<process, fatalMsg, certFile, listener, entry, params,
                               uiReq, clientReq, proxyReq, serverReq, proxyW, proxyErr,
                               clientW, clientConn, proxyConn, uiW, calls>>]_vars

\* C23 witness: the server has answered a request that reached it over HTTP/2.
C23_Witness ==
    \E r \in Reqs :
        /\ pc[r] = "proxy_response"
        /\ serverReq[r].Proto = "HTTP/2.0"
        /\ serverW[r].body # <<>>

\* The body the proxy builds for an inbound request of protocol p when the
\* server answers a request of protocol q
RelayBody(p, q) ==
    Write(WriteHeader(Proxy_selfTag(Request(Host(proxyPort), <<>>, p)), StatusOK),
          Server_body(Request(Host(proxyPort), <<>>, q))).body
FramingProtos == {"HTTP/1.1", "HTTP/2.0", "", "HTTP/~~boundary~~"}
DelimiterFree(p) ==
    ~ContainsString(Bytes(Marshal(ProxyResponse(p))), responseBoundary)

\* C24: for all protocol strings p and q whose encodings do not contain the
\* boundary, Client.parseResponse of the body the proxy builds from p and the
\* server's encoding of q gives ProxyResponse{p} and ServerResponse{q}, in
\* this order; so does every answer the client has given for such a body.
C24_FramingRoundTrip ==
    /\ \A p, q \in FramingProtos :
          (DelimiterFree(p) /\ DelimiterFree(q))
              => parseResponse(RelayBody(p, q))
                     = [outcome |-> "ok", msg |-> "",
                        proxy |-> ProxyResponse(p), server |-> ServerResponse(q)]
    /\ \A r \in Reqs : \A p, q \in Protos :
          (ClientReturned(r) /\ proxyW[r].body = RelayBody(p, q))
              => /\ Answered(r)
                 /\ clientW[r].resp.ProxyResponse = ProxyResponse(p)
                 /\ clientW[r].resp.ServerResponse = ServerResponse(q)

\* C24 witness: the client has decoded a body whose two observations differ.
C24_Witness ==
    \E r \in Reqs :
        /\ Answered(r)
        /\ proxyW[r].body = RelayBody("HTTP/1.1", "HTTP/2.0")
        /\ clientW[r].resp.ProxyResponse = ProxyResponse("HTTP/1.1")
        /\ clientW[r].resp.ServerResponse = ServerResponse("HTTP/2.0")

\* C25: in every AggregatedResponse the client returns, ResponseProtocol (of
\* the proxy's response as the client's transport reports it) equals
\* ProxyResponse.RequestProtocol (of the client's request as the proxy's
\* handler saw it).
C25_ResponseProtoIsObservedProto ==
    \A r \in Reqs :
        Answered(r) =>
            /\ clientW[r].resp.ResponseProtocol
                   = clientW[r].resp.ProxyResponse.RequestProtocol
            /\ clientW[r].resp.ResponseProtocol = proxyReq[r].Proto

\* C25 witness: an AggregatedResponse of an HTTP/2 exchange with the proxy
\* whose server observation is HTTP/1.1.
C25_Witness ==
    \E r \in Reqs :
        /\ Answered(r)
        /\ clientW[r].resp.ResponseProtocol = "HTTP/2.0"
        /\ clientW[r].resp.ProxyResponse.RequestProtocol = "HTTP/2.0"
        /\ clientW[r].resp.ServerResponse.RequestProtocol = "HTTP/1.1"

\* C26: the proxy's status is committed as 200 by its first write, before
\* the outcome of its call to the server is known, and stays 200 whether the
\* call succeeds or fails; every AggregatedResponse the client returns has
\* ResponseCode "200".
C26_CodeIsAlways200 ==
    \A r \in Reqs :
        /\ pc[r] = "server" => proxyW[r].wroteHeader
        /\ proxyW[r].wroteHeader => proxyW[r].status = StatusOK
        /\ Answered(r) => clientW[r].resp.ResponseCode = "200"

\* C26 witness: the client has returned an AggregatedResponse for a request
\* the server answered.
C26_Witness ==
    \E r \in Reqs :
        /\ Answered(r)
        /\ serverReq[r].Present
        /\ clientW[r].resp.ResponseCode = "200"

====
